---- MODULE Spec2Model ----
(***************************************************************************)
(* Model of rppal's hal module (src/src/hal.rs): the Delay provider        *)
(* (DelayMs / DelayUs over u8, u16, u32, u64), the unit wrappers           *)
(* Millisecond / Microsecond / Second with their conversions, and the      *)
(* CountDown implementation of Timer (new / start / wait).                 *)
(*                                                                         *)
(* Time is counted in microseconds.  The monotonic clock is a natural      *)
(* number.  Unsigned machine integers are little-endian sequences of       *)
(* bytes (a u64 is 8 bytes), so that 64-bit overflow is modelled at its    *)
(* real width; a std::time::Duration is its exact microsecond count, a     *)
(* byte sequence without high zero bytes.                                  *)
(***************************************************************************)
EXTENDS Naturals, Sequences, FiniteSets

VARIABLES
    clock,            \* the monotonic clock read by Instant::now(), in microseconds
    ticks,            \* number of clock advances so far (bounds the behaviours)
    overflow_checks,  \* build profile: TRUE when `*` panics on overflow (debug)
    panicked,         \* TRUE once an arithmetic overflow panic has unwound the caller
    timer,            \* timer[i] = [now, duration]: the fields of Timer i
    armed,            \* armed[i]: the call (new/start), timeout and clock reading that
                      \* set the fields of Timer i, whether that call found an
                      \* earlier deadline still pending, and whether Timer i has
                      \* them as a copy of another Timer
    hist,             \* hist[i]: the wait() outcomes on Timer i since the latest new/start
    slept,            \* slept[i]: longest delay asked for (in microseconds) among the
                      \* delay calls that returned since the latest new/start
    pc,               \* pc[t]: "run" or "sleep" (inside thread::sleep)
    sleep             \* sleep[t]: the delay call thread t is in, or made last

vars == <<clock, ticks, overflow_checks, panicked, timer, armed, hist, slept,
          pc, sleep>>

\* ------------------------------------------------------------------ bounds

MaxTicks == 2
MaxPolls == 2

\* ------------------------------------------------- unsigned integer values

\* A byte sequence without its high zero bytes.
RECURSIVE Norm(_)
Norm(x) ==
    IF x = <<>> THEN <<>>
    ELSE IF x[Len(x)] = 0 THEN Norm(SubSeq(x, 1, Len(x) - 1))
    ELSE x

\* The bytes of a natural number, low byte first.
RECURSIVE Bytes(_)
Bytes(n) == IF n = 0 THEN <<>> ELSE <<n % 256>> \o Bytes(n \div 256)

\* x zero-extended (or cut) to exactly k bytes: the value modulo 2^(8k).
Fit(x, k) == [j \in 1..k |-> IF j <= Len(x) THEN x[j] ELSE 0]

\* The exact product x * k + c of a byte sequence and a small factor.
RECURSIVE MulAdd(_, _, _)
MulAdd(x, k, c) ==
    IF x = <<>> THEN Bytes(c)
    ELSE LET p == Head(x) * k + c
         IN  <<p % 256>> \o MulAdd(Tail(x), k, p \div 256)

\* a >= b for byte sequences without high zero bytes.
RECURSIVE GeNorm(_, _)
GeNorm(a, b) ==
    IF Len(a) # Len(b) THEN Len(a) > Len(b)
    ELSE IF a = <<>> THEN TRUE
    ELSE IF a[Len(a)] # b[Len(b)] THEN a[Len(a)] > b[Len(b)]
    ELSE GeNorm(SubSeq(a, 1, Len(a) - 1), SubSeq(b, 1, Len(b) - 1))

Ge(a, b) == GeNorm(Norm(a), Norm(b))

\* A u64 from a small natural number.
U64(n) == Fit(Bytes(n), 8)

\* A widening that keeps the low byte only.
u64_from_low_byte(x) == Fit(Fit(x, 1), 8)

\* u64::from(x) for x: u8, u16, u32: zero extension to 8 bytes.
u64_from(x) == Fit(x, 8)

\* `a * k` on u64: the wrapped product, and whether it overflowed.
mul_u64(a, k) ==
    LET exact == Norm(MulAdd(a, k, 0))
    IN  [overflow |-> Len(exact) > 8, val |-> Fit(exact, 8)]

\* Microseconds in one unit of time, and the exact (unbounded) microsecond
\* count of n units.
UnitMicros(unit) ==
    CASE unit \in {"Second"}            -> 1000000
      [] unit \in {"Millisecond", "ms"} -> 1000
      [] OTHER                          -> 1
ExactMicros(unit, n) == Norm(MulAdd(Norm(n), UnitMicros(unit), 0))

\* ---------------------------------------------------------------- Duration

from_micros(us) == Norm(us)
from_millis(ms) == Norm(MulAdd(ms, 1000, 0))

\* ------------------------------------------------------------- conversions

Millisecond(n) == [unit |-> "Millisecond", n |-> n]
Microsecond(n) == [unit |-> "Microsecond", n |-> n]
Second(n)      == [unit |-> "Second", n |-> n]

From_Millisecond(item) == mul_u64(item.n, 1000)

\* Second converted with the factor of Millisecond.
From_Second_as_millis(item) == mul_u64(item.n, 1000)

From_Second(item) == mul_u64(item.n, 1000000)

\* timeout.into(): T: Into<Microsecond>.
into(timeout) ==
    CASE timeout.unit = "Millisecond" -> From_Millisecond(timeout)
      [] timeout.unit = "Second"      -> From_Second(timeout)
      [] OTHER                        -> [overflow |-> FALSE, val |-> timeout.n]

as_u64(m) == m.val

\* ------------------------------------------------------------------- inputs

TimerIds == {1, 2}
Threads  == {1, 2}

\* 2^64 - 1, and the least n for which n * 1000 (n * 1000000) leaves 64 bits:
\* 18446744073709552 and 18446744073710.
U64_MAX  == <<255, 255, 255, 255, 255, 255, 255, 255>>
MsWrap   == <<240, 167, 198, 75, 55, 137, 65, 0>>
SecWrap  == <<238, 181, 160, 247, 198, 16, 0, 0>>

\* Clock advances between two calls, in microseconds.
ClockSteps == {1, 383, 4999}

\* Timeouts handed to start.
Timeouts ==
    { Microsecond(U64(0)), Millisecond(U64(0)), Second(U64(0)),
      Microsecond(U64(1)), Millisecond(U64(5)), Second(U64(10)),
      Millisecond(MsWrap) }

\* Integer widths of the DelayMs / DelayUs implementations, and the values
\* handed to them (w / 8 bytes each).
Widths == {8, 16, 32, 64}
DelayValues(w) ==
    { Fit(Bytes(n), w \div 8) : n \in (IF w = 8 THEN {1, 5, 255} ELSE {1, 5, 384}) }

\* The delays the thread polling a Timer sleeps for: 5 ms as u8, 384 us as u16.
TimerDelayMs == {Fit(Bytes(5), 1)}
TimerDelayUs == {Fit(Bytes(384), 2)}

\* Timeouts around the 64-bit boundary of the conversions: the greatest n
\* whose product fits (18446744073709551 ms, 18446744073709 s), the least
\* that overflows, 2^61 (whose products are multiples of 2^64) and 2^64 - 1.
MsLimit  == <<239, 167, 198, 75, 55, 137, 65, 0>>
SecLimit == <<237, 181, 160, 247, 198, 16, 0, 0>>
Pow61    == <<0, 0, 0, 0, 0, 0, 0, 32>>
ConvValues ==
    { U64(0), U64(1), U64(5), U64(50), U64(1000), SecLimit, SecWrap, MsLimit,
      MsWrap, Pow61, U64_MAX }
ConvTimeouts ==
    { Microsecond(n) : n \in ConvValues } \cup { Millisecond(n) : n \in ConvValues }
        \cup { Second(n) : n \in ConvValues }

\* ------------------------------------------------------------------- Timer

\* Timer::new() at clock reading t.
Timer_new(t) == [now |-> t, duration |-> from_micros(U64(0))]

\* self.now.elapsed() at clock reading t.
elapsed(self, t) == Bytes(t - self.now)

\* start that keeps the Instant of the earlier arming.
start_fields_keeps_now(self, m, t) ==
    [now |-> self.now, duration |-> from_micros(as_u64(m))]

\* start that takes the Instant but leaves the duration as it was.
start_fields_keeps_duration(self, m, t) == [now |-> t, duration |-> self.duration]

\* start that stores an Instant later than the reading of the call.
start_fields_deadline(self, m, t) ==
    [now |-> t + 1, duration |-> from_micros(as_u64(m))]

\* The fields start leaves, m being timeout.into().
start_fields(self, m, t) == [now |-> t, duration |-> from_micros(as_u64(m))]

\* wait that compares with > where the code compares with >=.
wait_result_strict(self, t) ==
    IF ~Ge(self.duration, elapsed(self, t)) THEN "Ok" ELSE "WouldBlock"

\* wait that reports complete only at the very reading the deadline falls on.
wait_result_only_at_deadline(self, t) ==
    IF elapsed(self, t) = self.duration THEN "Ok" ELSE "WouldBlock"

\* The value wait returns at clock reading t.
wait_result(self, t) ==
    IF Ge(elapsed(self, t), self.duration) THEN "Ok" ELSE "WouldBlock"

\* wait that restarts the countdown when it returns Ok, as its doc comment says.
wait_fields_restart(self, t) ==
    IF Ge(elapsed(self, t), self.duration) THEN [self EXCEPT !.now = t] ELSE self

\* The fields wait leaves: it assigns to none.
wait_fields(self, t) == self

\* A write through one Timer that reaches every Timer, as if Timers shared
\* their fields.
assign_shared(timers, i, self) == [j \in DOMAIN timers |-> self]

\* The Timers after Timer i is given the fields self: a Timer is a plain value
\* (Copy, Clone) that each method reaches through its own &mut self.
assign(timers, i, self) == [timers EXCEPT ![i] = self]

\* ------------------------------------------------------------------- Delay

\* delay_ms that sleeps for microseconds.
delay_ms_duration_micros(ms) == from_micros(u64_from(ms))

\* The Duration delay_ms / delay_us hand to thread::sleep.
delay_ms_duration(ms) == from_millis(u64_from(ms))
delay_us_duration(us) == from_micros(u64_from(us))

\* A sleep that returns only when every sleep in progress is over, as if the
\* callers queued on one shared timer.
sleep_over_all(t0, dur, t) ==
    /\ Ge(Bytes(t - t0), dur)
    /\ \A u \in DOMAIN pc :
          pc[u] = "sleep" => Ge(Bytes(t - sleep[u].start), sleep[u].dur)

\* thread::sleep(dur) entered at clock reading t0 may return at reading t.
sleep_over(t0, dur, t) == Ge(Bytes(t - t0), dur)

NoDelay == [unit |-> "none", width |-> 0, n |-> <<>>, dur |-> <<>>,
            start |-> 0, woke |-> 0]

\* ------------------------------------------------------------ state machine

Init ==
    /\ clock = 0
    /\ ticks = 0
    /\ overflow_checks \in BOOLEAN
    /\ panicked = FALSE
    /\ timer = [i \in TimerIds |-> Timer_new(0)]
    /\ armed = [i \in TimerIds |->
                  [op |-> "new", timeout |-> Microsecond(U64(0)), at |-> 0,
                   pending |-> FALSE, copied |-> FALSE]]
    /\ hist = [i \in TimerIds |-> <<>>]
    /\ slept = [i \in TimerIds |-> <<>>]
    /\ pc = [t \in Threads |-> "run"]
    /\ sleep = [t \in Threads |-> NoDelay]

\* The monotonic clock advances by d microseconds.
Tick(d) ==
    /\ ticks < MaxTicks
    /\ clock' = clock + d
    /\ ticks' = ticks + 1
    /\ UNCHANGED <<overflow_checks, panicked, timer, armed, hist, slept, pc, sleep>>

\* Thread 1 replaces Timer i by Timer::new().
new(i) ==
    /\ ~panicked /\ pc[1] = "run"
    /\ timer' = assign(timer, i, Timer_new(clock))
    /\ armed' = [armed EXCEPT ![i] =
                   [op |-> "new", timeout |-> Microsecond(U64(0)), at |-> clock,
                    pending |-> FALSE, copied |-> FALSE]]
    /\ hist' = [hist EXCEPT ![i] = <<>>]
    /\ slept' = [slept EXCEPT ![i] = <<>>]
    /\ UNCHANGED <<clock, ticks, overflow_checks, panicked, pc, sleep>>

\* Thread 1 calls start(timeout) on Timer i.  The multiplication inside
\* timeout.into() panics on overflow when the build checks overflow, before
\* any field is assigned; otherwise it wraps.
start(i, timeout) ==
    /\ ~panicked /\ pc[1] = "run"
    /\ LET m == into(timeout)
       IN  IF m.overflow /\ overflow_checks
           THEN /\ panicked' = TRUE
                /\ UNCHANGED <<timer, armed, hist, slept>>
           ELSE /\ timer' = assign(timer, i, start_fields(timer[i], m, clock))
                /\ armed' = [armed EXCEPT ![i] =
                               [op |-> "start", timeout |-> timeout, at |-> clock,
                                pending |-> ~Ge(elapsed(timer[i], clock),
                                                timer[i].duration),
                                copied |-> FALSE]]
                /\ hist' = [hist EXCEPT ![i] = <<>>]
                /\ slept' = [slept EXCEPT ![i] = <<>>]
                /\ UNCHANGED panicked
    /\ UNCHANGED <<clock, ticks, overflow_checks, pc, sleep>>

\* Thread 1 copies Timer i into Timer j (`let mut j = i;`, Timer is Copy).
copy(i, j) ==
    /\ ~panicked /\ pc[1] = "run"
    /\ i # j
    /\ timer' = assign(timer, j, timer[i])
    /\ armed' = [armed EXCEPT ![j] = [armed[i] EXCEPT !.copied = TRUE]]
    /\ hist' = [hist EXCEPT ![j] = <<>>]
    /\ slept' = [slept EXCEPT ![j] = slept[i]]
    /\ UNCHANGED <<clock, ticks, overflow_checks, panicked, pc, sleep>>

\* Thread 1 calls wait() on Timer i.
wait(i) ==
    /\ ~panicked /\ pc[1] = "run"
    /\ Len(hist[i]) < MaxPolls
    /\ hist' = [hist EXCEPT ![i] =
                  Append(@, [res |-> wait_result(timer[i], clock), at |-> clock,
                             slept |-> slept[i]])]
    /\ timer' = assign(timer, i, wait_fields(timer[i], clock))
    /\ UNCHANGED <<clock, ticks, overflow_checks, panicked, armed, slept, pc, sleep>>

\* Thread 1 calls wait() on Timer i, in a polling loop of any length: only the
\* latest outcome is kept.
poll(i) ==
    /\ ~panicked /\ pc[1] = "run"
    /\ hist' = [hist EXCEPT ![i] =
                  <<[res |-> wait_result(timer[i], clock), at |-> clock,
                     slept |-> slept[i]]>>]
    /\ timer' = assign(timer, i, wait_fields(timer[i], clock))
    /\ UNCHANGED <<clock, ticks, overflow_checks, panicked, armed, slept, pc, sleep>>

\* Thread t calls delay_ms(ms) with ms of width w and enters thread::sleep.
delay_ms(t, w, ms) ==
    /\ ~panicked /\ pc[t] = "run"
    /\ pc' = [pc EXCEPT ![t] = "sleep"]
    /\ sleep' = [sleep EXCEPT ![t] =
                   [unit |-> "ms", width |-> w, n |-> ms,
                    dur |-> delay_ms_duration(ms), start |-> clock, woke |-> clock]]
    /\ UNCHANGED <<clock, ticks, overflow_checks, panicked, timer, armed, hist, slept>>

\* Thread t calls delay_us(us) with us of width w and enters thread::sleep.
delay_us(t, w, us) ==
    /\ ~panicked /\ pc[t] = "run"
    /\ pc' = [pc EXCEPT ![t] = "sleep"]
    /\ sleep' = [sleep EXCEPT ![t] =
                   [unit |-> "us", width |-> w, n |-> us,
                    dur |-> delay_us_duration(us), start |-> clock, woke |-> clock]]
    /\ UNCHANGED <<clock, ticks, overflow_checks, panicked, timer, armed, hist, slept>>

\* thread::sleep returns in thread t, and with it the delay call.
sleep_return(t) ==
    /\ pc[t] = "sleep"
    /\ sleep_over(sleep[t].start, sleep[t].dur, clock)
    /\ pc' = [pc EXCEPT ![t] = "run"]
    /\ sleep' = [sleep EXCEPT ![t].woke = clock]
    /\ slept' = IF t = 1
                THEN LET asked == ExactMicros(sleep[t].unit, sleep[t].n)
                     IN  [i \in TimerIds |->
                            IF Ge(asked, slept[i]) THEN asked ELSE slept[i]]
                ELSE slept
    /\ UNCHANGED <<clock, ticks, overflow_checks, panicked, timer, armed, hist>>

Next ==
    \/ \E d \in ClockSteps : Tick(d)
    \/ new(1)
    \/ \E timeout \in Timeouts : start(1, timeout)
    \/ wait(1)
    \/ \E ms \in TimerDelayMs : delay_ms(1, 8, ms)
    \/ \E us \in TimerDelayUs : delay_us(1, 16, us)
    \/ sleep_return(1)

Spec == Init /\ [][Next]_vars

\* start over the whole range of timeouts.
NextConv ==
    \/ \E d \in ClockSteps : Tick(d)
    \/ \E timeout \in ConvTimeouts : start(1, timeout)

SpecConv == Init /\ [][NextConv]_vars

\* The Delay provider alone, at every width.
NextDelay ==
    \/ \E d \in ClockSteps : Tick(d)
    \/ \E w \in Widths : \E ms \in DelayValues(w) : delay_ms(1, w, ms)
    \/ \E w \in Widths : \E us \in DelayValues(w) : delay_us(1, w, us)
    \/ sleep_return(1)

SpecDelay == Init /\ [][NextDelay]_vars

\* Two Timers, one of them at times a copy of the other.
TwoTimerTimeouts == {Millisecond(U64(5))}
TwoTimerSteps == {1, 4999}
NextTimers ==
    \/ \E d \in TwoTimerSteps : Tick(d)
    \/ \E i \in TimerIds : \E timeout \in TwoTimerTimeouts : start(i, timeout)
    \/ \E i \in TimerIds : wait(i)
    \/ \E i, j \in TimerIds : copy(i, j)

SpecTimers == Init /\ [][NextTimers]_vars

\* A caller that keeps polling one Timer while the clock keeps advancing, by
\* no less than the longest timeout at a time.
LiveTimeouts == {Microsecond(U64(1)), Millisecond(U64(5))}
LiveSteps == {5000, 9999}
NextLive ==
    \/ \E d \in LiveSteps : Tick(d)
    \/ \E timeout \in LiveTimeouts : start(1, timeout)
    \/ poll(1)

SpecLive ==
    /\ Init /\ [][NextLive]_vars
    /\ WF_vars(\E d \in LiveSteps : Tick(d))
    /\ WF_vars(poll(1))

\* Two threads calling delay_ms / delay_us, each whenever it is not sleeping.
NextConc ==
    \/ \E d \in ClockSteps : Tick(d)
    \/ \E t \in Threads : \E ms \in TimerDelayMs : delay_ms(t, 8, ms)
    \/ \E t \in Threads : \E us \in TimerDelayUs : delay_us(t, 16, us)
    \/ \E t \in Threads : sleep_return(t)

SpecConc ==
    /\ Init /\ [][NextConc]_vars
    /\ WF_vars(\E d \in ClockSteps : Tick(d))
    /\ \A t \in Threads : WF_vars(sleep_return(t))

\* =================================================================== claims

Outcomes == {"Ok", "WouldBlock"}

\* C1: every wait() returns Ok or WouldBlock and nothing else, and it returns
\* Ok exactly when the clock reading at the call, less the reading taken by
\* the latest start (or new), is at least the duration that call stored;
\* elapsed = duration counts as complete.
C1_WaitOutcome ==
    \A i \in TimerIds : \A k \in 1..Len(hist[i]) :
        LET h == hist[i][k]
        IN  /\ h.res \in Outcomes
            /\ h.res = "Ok" <=> Ge(Bytes(h.at - armed[i].at), timer[i].duration)

\* A wait 5000 us after start(Millisecond(5)), the boundary, returned Ok and one
\* before it returned WouldBlock.
C1_Witness ==
    /\ armed[1].op = "start" /\ armed[1].timeout = Millisecond(U64(5))
    /\ Len(hist[1]) = 2
    /\ hist[1][1].res = "WouldBlock" /\ hist[1][1].at = armed[1].at + 4999
    /\ hist[1][2].res = "Ok" /\ hist[1][2].at = armed[1].at + 5000

\* C2: between two starts the outcomes of wait() are never Ok followed, at any
\* later poll, by WouldBlock.
C2_StickyReady ==
    \A i \in TimerIds : \A j, k \in 1..Len(hist[i]) :
        (j < k /\ hist[i][j].res = "Ok") => hist[i][k].res = "Ok"

\* Two polls of a Timer armed with a positive duration both returned Ok, the
\* second without any clock advance after the first.
C2_Witness ==
    /\ armed[1].op = "start" /\ timer[1].duration # <<>>
    /\ Len(hist[1]) = 2
    /\ hist[1][1].res = "Ok" /\ hist[1][2].res = "Ok"
    /\ hist[1][2].at = hist[1][1].at

\* C3: after a start that returned, whatever the Timer held before, now is the
\* clock reading of that call and duration is the microsecond conversion of
\* its timeout, and every wait() since is decided by these two alone.
C3_StartRearms ==
    \A i \in TimerIds :
        armed[i].op = "start" =>
            LET d == Norm(Fit(ExactMicros(armed[i].timeout.unit, armed[i].timeout.n), 8))
            IN  /\ timer[i].now = armed[i].at
                /\ timer[i].duration = d
                /\ \A k \in 1..Len(hist[i]) :
                       hist[i][k].res = "Ok" <=> Ge(Bytes(hist[i][k].at - armed[i].at), d)

\* start(Millisecond(5)) was called while an earlier deadline was pending, and
\* a wait 5 ms after it returned Ok.
C3_Witness ==
    /\ armed[1].op = "start" /\ armed[1].pending
    /\ armed[1].timeout = Millisecond(U64(5))
    /\ \E k \in 1..Len(hist[1]) :
          hist[1][k].res = "Ok" /\ hist[1][k].at = armed[1].at + 5000

\* C4: a Timer that was constructed and never started, or whose latest start had
\* a zero timeout of any unit, returns Ok on every wait().
C4_ZeroAlwaysReady ==
    \A i \in TimerIds :
        (armed[i].op = "new" \/ armed[i].timeout.n = U64(0)) =>
            \A k \in 1..Len(hist[i]) : hist[i][k].res = "Ok"

\* A Timer started with Second(0) was polled with no clock advance since the start.
C4_Witness ==
    /\ armed[1].op = "start" /\ armed[1].timeout = Second(U64(0))
    /\ Len(hist[1]) > 0
    /\ hist[1][1].at = armed[1].at /\ hist[1][1].res = "Ok"

\* The exact microsecond count of the timeout of the latest start of Timer i.
Asked(i) == ExactMicros(armed[i].timeout.unit, armed[i].timeout.n)

\* C5 as stated: after start(d), d > 0, a wait() before the clock has advanced
\* by d returns WouldBlock, and a wait() after a delay of at least d has
\* returned in the same thread returns Ok, no start in between.
C5_DelayThenReady_AnyTimeout ==
    \A i \in TimerIds :
        (armed[i].op = "start" /\ Asked(i) # <<>>) =>
            \A k \in 1..Len(hist[i]) :
                LET h == hist[i][k]
                IN  /\ ~Ge(Bytes(h.at - armed[i].at), Asked(i)) => h.res = "WouldBlock"
                    /\ Ge(h.slept, Asked(i)) => h.res = "Ok"

\* C5, amended: the same for every d > 0 whose microsecond count fits in 64
\* bits.
C5_DelayThenReady ==
    \A i \in TimerIds :
        (armed[i].op = "start" /\ Asked(i) # <<>> /\ Len(Asked(i)) <= 8) =>
            \A k \in 1..Len(hist[i]) :
                LET h == hist[i][k]
                IN  /\ ~Ge(Bytes(h.at - armed[i].at), Asked(i)) => h.res = "WouldBlock"
                    /\ Ge(h.slept, Asked(i)) => h.res = "Ok"

\* After start(Millisecond(5)) an immediate wait returned WouldBlock, the thread
\* then returned from delay_ms(5), and the next wait returned Ok.
C5_Witness ==
    /\ armed[1].op = "start" /\ armed[1].timeout = Millisecond(U64(5))
    /\ Len(hist[1]) = 2
    /\ hist[1][1].at = armed[1].at /\ hist[1][1].res = "WouldBlock"
    /\ hist[1][1].slept = <<>>
    /\ hist[1][2].slept = Bytes(5000) /\ hist[1][2].res = "Ok"

\* C6 as stated: for every n of the u64 range the duration start stores is
\* n microseconds, n * 1000 microseconds for Millisecond(n) and n * 1000000
\* for Second(n).
C6_ExactConversion_AnyN ==
    \A i \in TimerIds :
        armed[i].op = "start" => timer[i].duration = Asked(i)

\* C6, amended: the same for every n whose product is below 2^64.
C6_ExactConversion ==
    \A i \in TimerIds :
        (armed[i].op = "start" /\ Len(Asked(i)) <= 8) => timer[i].duration = Asked(i)

\* start(Second(18446744073709)), the greatest Second whose product fits, has
\* stored 18446744073709000000 microseconds.
C6_Witness ==
    /\ armed[1].op = "start" /\ armed[1].timeout = Second(SecLimit)
    /\ timer[1].duration = <<64, 149, 247, 255, 255, 255, 255, 255>>

\* C7: the conversion never aborts: whatever timeout start is given, the caller
\* is not unwound by a panic, and the duration stored is the product modulo
\* 2^64.
C7_ConversionTotal ==
    /\ ~panicked
    /\ \A i \in TimerIds :
          armed[i].op = "start" => timer[i].duration = Norm(Fit(Asked(i), 8))

\* C8: a delay call of any width asks thread::sleep for exactly n milliseconds
\* (microseconds), n being the value of its argument, and it has returned only
\* when the clock is at least that far past its reading at the call.
C8_DelayLowerBound ==
    \A t \in Threads :
        sleep[t].unit # "none" =>
            LET asked == ExactMicros(sleep[t].unit, sleep[t].n)
            IN  /\ sleep[t].dur = asked
                /\ pc[t] = "run" => Ge(Bytes(sleep[t].woke - sleep[t].start), asked)

\* delay_us(384u16) has returned exactly 384 us after the call.
C8_Witness ==
    /\ pc[1] = "run"
    /\ sleep[1].unit = "us" /\ sleep[1].width = 16 /\ sleep[1].n = <<128, 1>>
    /\ sleep[1].woke = sleep[1].start + 384

\* C9: a wait() that returns Ok restarts the countdown: the next wait(), issued
\* with less than duration of clock advance after it, returns WouldBlock.
C9_WaitRestarts ==
    \A i \in TimerIds : \A k \in 1..Len(hist[i]) :
        ( /\ k < Len(hist[i])
          /\ hist[i][k].res = "Ok"
          /\ timer[i].duration # <<>>
          /\ ~Ge(Bytes(hist[i][k + 1].at - hist[i][k].at), timer[i].duration) )
        => hist[i][k + 1].res = "WouldBlock"

\* C10: a wait() on a Timer, whatever it returns, leaves the Timer's now and
\* duration as they were.
C10_WaitChangesNothing ==
    [][\A i \in TimerIds : Len(hist'[i]) = Len(hist[i]) + 1 => timer'[i] = timer[i]]_vars

\* A Timer armed with a positive duration has returned WouldBlock and then Ok,
\* and still holds what start stored.
C10_Witness ==
    /\ armed[1].op = "start" /\ timer[1].duration # <<>>
    /\ Len(hist[1]) = 2
    /\ hist[1][1].res = "WouldBlock" /\ hist[1][2].res = "Ok"
    /\ timer[1].now = armed[1].at

\* C11: a start, a wait, a new or a copy that touches one Timer leaves the fields
\* of every other Timer as they were, a copy included, and every wait() outcome
\* of a Timer is decided by that Timer's own latest arming alone.
C11_TimersIndependent ==
    /\ [](\A i \in TimerIds : \A k \in 1..Len(hist[i]) :
            hist[i][k].res = "Ok" <=>
                Ge(Bytes(hist[i][k].at - armed[i].at), Norm(Fit(Asked(i), 8))))
    /\ [][\A i, j \in TimerIds :
            (i # j /\ <<timer[i], armed[i], hist[i]>>' # <<timer[i], armed[i], hist[i]>>)
                => timer'[j] = timer[j]]_vars

\* Timer 2 is a copy taken of Timer 1 when it was armed with Millisecond(5);
\* Timer 1 was started again later; Timer 2, polled 5 ms after the arming it
\* copied, has returned Ok, and Timer 1, polled no earlier, WouldBlock.
C11_Witness ==
    /\ armed[2].copied /\ armed[2].op = "start"
    /\ ~armed[1].copied /\ armed[1].op = "start"
    /\ armed[1].at > armed[2].at
    /\ timer[2] = [now |-> armed[2].at, duration |-> Bytes(5000)]
    /\ \E k \in 1..Len(hist[1]) : \E l \in 1..Len(hist[2]) :
          /\ hist[2][l].res = "Ok" /\ hist[1][k].res = "WouldBlock"
          /\ hist[1][k].at >= hist[2][l].at

\* C12 as stated: a Timer is Idle (duration = 0) after new and Armed
\* (duration > 0) after every start.
C12_StartAlwaysArmed ==
    \A i \in TimerIds :
        /\ armed[i].op = "new" => timer[i].duration = <<>>
        /\ armed[i].op = "start" => timer[i].duration # <<>>

\* C12, amended: duration is 0 after new, and after a start it is > 0 exactly
\* when the microsecond count of the timeout is not zero modulo 2^64.
C12_ArmedUnlessZero ==
    \A i \in TimerIds :
        /\ armed[i].op = "new" => timer[i].duration = <<>>
        /\ armed[i].op = "start" =>
              (timer[i].duration # <<>> <=> Norm(Fit(Asked(i), 8)) # <<>>)

\* A Timer started with Millisecond(5), some time after its construction, holds
\* a duration of 5000 us.
C12_Witness ==
    /\ armed[1].op = "start" /\ armed[1].timeout = Millisecond(U64(5))
    /\ armed[1].at > 0
    /\ timer[1].duration = Bytes(5000)

\* The clock readings k advances can add up to, and the records a start can
\* leave in armed.
RECURSIVE LiveClocks(_)
LiveClocks(k) ==
    IF k = 0 THEN {0}
    ELSE LiveClocks(k - 1) \cup {c + d : c \in LiveClocks(k - 1), d \in LiveSteps}
LiveArmed ==
    [op : {"start"}, timeout : LiveTimeouts, at : LiveClocks(MaxTicks),
     pending : BOOLEAN, copied : {FALSE}]

\* C13: whenever a start has armed the Timer and the clock still advances, a
\* caller that keeps polling gets Ok from wait(), unless start is called again
\* first; no poll comes too late for it.
C13_NoDeadlineLost ==
    \A a \in LiveArmed :
        (armed[1] = a /\ ticks < MaxTicks)
            ~> (armed[1] # a \/ (hist[1] # <<>> /\ hist[1][1].res = "Ok"))

\* A poll that came almost 10 ms after start(Microsecond(1)) returned Ok.
C13_Witness ==
    /\ armed[1].op = "start" /\ armed[1].timeout = Microsecond(U64(1))
    /\ hist[1] # <<>>
    /\ hist[1][1].at >= armed[1].at + 9999
    /\ hist[1][1].res = "Ok"

\* The delay call of thread t is due: the clock is as far past the call as the
\* call asked for.
Due(t) ==
    Ge(Bytes(clock - sleep[t].start), ExactMicros(sleep[t].unit, sleep[t].n))

\* C14: with two threads in delay calls, a call returns only when it is due; a
\* due call can return whatever the other thread is doing; a step of one
\* thread's call leaves the other's as it was; and every call returns in the
\* end, unless the clock stops before the call is due.
C14_DelaysIndependent ==
    /\ [](\A t \in Threads :
            /\ (sleep[t].unit # "none" /\ pc[t] = "run") =>
                  Ge(Bytes(sleep[t].woke - sleep[t].start),
                     ExactMicros(sleep[t].unit, sleep[t].n))
            /\ (pc[t] = "sleep" /\ Due(t)) => ENABLED sleep_return(t))
    /\ [][\A t, u \in Threads :
            (t # u /\ <<pc[t], sleep[t]>>' # <<pc[t], sleep[t]>>)
                => <<pc[u], sleep[u]>>' = <<pc[u], sleep[u]>>]_vars
    /\ \A t \in Threads :
          (pc[t] = "sleep") ~> (pc[t] = "run" \/ (ticks = MaxTicks /\ ~Due(t)))

\* Thread 1 has returned from delay_us(384) while thread 2, which called
\* delay_ms(5) no later than thread 1 called, is still sleeping.
C14_Witness ==
    /\ pc[1] = "run" /\ sleep[1].unit = "us"
    /\ sleep[1].woke >= sleep[1].start + 384
    /\ pc[2] = "sleep" /\ sleep[2].unit = "ms"
    /\ sleep[2].start <= sleep[1].start
    /\ sleep[1].woke < sleep[2].start + 5000

\* C15: the Instant a Timer holds is never later than the clock, so the elapsed
\* time every wait() computed was not negative.
C15_ArmedNotInFuture ==
    \A i \in TimerIds :
        /\ timer[i].now <= clock
        /\ \A k \in 1..Len(hist[i]) : timer[i].now <= hist[i][k].at

\* A Timer started after the clock had advanced was polled after a further
\* advance.
C15_Witness ==
    /\ armed[1].op = "start" /\ timer[1].now > 0
    /\ hist[1] # <<>> /\ hist[1][1].at > timer[1].now
    /\ clock = hist[1][1].at
====
